---- MODULE Spec2Model ----
(***************************************************************************)
(* A model of src/src/parse/ast.rs of 3cc: the recursive-descent /         *)
(* precedence-climbing parser, the tree-walking emitter with its frame     *)
(* binder and label generator, and the x86-64 semantics of the emitted     *)
(* instructions.                                                           *)
(***************************************************************************)
EXTENDS Integers, Sequences, FiniteSets, TLC

VARIABLES
    phase,        \* position of the compilation: "parse", "body", "emit", "exec", "done"
    tokens,       \* the token vector handed to parse()
    t,            \* the PutBackN token stream (front = next token to be read)
    fname,        \* Function.name once the header is parsed
    body,         \* Function.body: statements parsed so far
    perr,         \* outcome of parsing: "", an Error kind, or "Panic"
    vmap,         \* the frame binder: variable name -> stack offset
    stack_index,  \* the stack-offset counter of Function::emit
    emitted,      \* number of statements of body handed to Statement::emit
    asm,          \* instructions emitted so far
    eerr,         \* outcome of emission: [kind, var]
    LABEL_COUNT,  \* the process-wide label counter
    m,            \* the machine running the emitted code
    th,           \* concurrently running emissions (label generation)
    input         \* how the token vector was built (never read by the program)

vars == <<phase, tokens, t, fname, body, perr, vmap, stack_index, emitted,
          asm, eerr, LABEL_COUNT, m, th, input>>

(***************************************************************************)
(* Tokens (super::lex::Token, as used by ast.rs).                          *)
(***************************************************************************)
Tok(k) == [k |-> k, s |-> "", i |-> 0]
Identifier(s) == [k |-> "Identifier", s |-> s, i |-> 0]
LiteralInt(i) == [k |-> "Literal", s |-> "Int", i |-> i]
KwInt == Tok("KeywordInt")
KwReturn == Tok("KeywordReturn")

(***************************************************************************)
(* The AST.  Every Expression is a record of one shape; kids holds the     *)
(* boxed sub-expressions.                                                  *)
(***************************************************************************)
NoNode == [tag |-> "None", op |-> "", s |-> "", i |-> 0, kids |-> <<>>]
Constant(i) == [tag |-> "Constant", op |-> "", s |-> "", i |-> i, kids |-> <<>>]
Var(s) == [tag |-> "Var", op |-> "", s |-> s, i |-> 0, kids |-> <<>>]
Unary(op, e) == [tag |-> "Unary", op |-> op, s |-> "", i |-> 0, kids |-> <<e>>]
Binary(op, e1, e2) == [tag |-> "Binary", op |-> op, s |-> "", i |-> 0, kids |-> <<e1, e2>>]
Assign(s, e) == [tag |-> "Assign", op |-> "", s |-> s, i |-> 0, kids |-> <<e>>]

Return(e) == [tag |-> "Return", s |-> "", has |-> TRUE, e |-> e]
Declaration(s, has, e) == [tag |-> "Declaration", s |-> s, has |-> has, e |-> e]
ExpressionStmt(e) == [tag |-> "Expression", s |-> "", has |-> TRUE, e |-> e]

(***************************************************************************)
(* Results of the parsing functions: Ok(val) with the stream after the     *)
(* call, Err(kind) with the stream after the call, or a panic.             *)
(***************************************************************************)
Ok(val, s) == [st |-> "Ok", err |-> "", found |-> Tok(""), rem |-> <<>>, val |-> val, t |-> s]
Err(kind, s) == [st |-> "Err", err |-> kind, found |-> Tok(""), rem |-> <<>>, val |-> NoNode, t |-> s]
\* UnexpectedToken{found, tokens: t.collect()}: collect() drains the stream.
UnexpectedToken(tok, s) ==
    [st |-> "Err", err |-> "UnexpectedToken", found |-> tok, rem |-> s, val |-> NoNode, t |-> <<>>]
\* Option::unwrap() on None.
Panic == [st |-> "Panic", err |-> "Panic", found |-> Tok(""), rem |-> <<>>, val |-> NoNode, t |-> <<>>]

\* PutBackN::put_back: the token is the next one read.
put_back(s, tok) == <<tok>> \o s

consume_token(s, tok) ==
    IF s = <<>> THEN Panic
    ELSE IF Head(s) # tok THEN UnexpectedToken(Head(s), Tail(s))
    ELSE Ok(NoNode, Tail(s))

Constant_parse(s) ==
    IF s = <<>> THEN Panic
    ELSE IF Head(s).k = "Literal" /\ Head(s).s = "Int" THEN Ok(Constant(Head(s).i), Tail(s))
    ELSE UnexpectedToken(Head(s), Tail(s))

UnaryOperator_parse(s) ==
    IF s = <<>> THEN Panic
    ELSE CASE Head(s).k = "Complement" -> Ok("Complement", Tail(s))
           [] Head(s).k = "Negative" -> Ok("Negative", Tail(s))
           [] Head(s).k = "Negation" -> Ok("Negation", Tail(s))
           [] OTHER -> UnexpectedToken(Head(s), Tail(s))

(***************************************************************************)
(* The operator table of parse_expr: for each token of the match, the      *)
(* symbol, the precedence, the associativity and the token pushed back     *)
(* when the precedence is below the minimum.                               *)
(***************************************************************************)
BinTokens == {"Addition", "Negative", "Multiplication", "Division", "LessThan",
              "LessThanEqual", "GreaterThan", "GreaterThanEqual", "Equal",
              "NotEqual", "And", "Or"}
CompoundTokens == {"AssignAdd", "AssignSub", "AssignDiv", "AssignMul", "AssignMod",
                   "AssignAnd", "AssignOr", "AssignXor", "AssignShiftLeft",
                   "AssignShiftRight"}
AssignTokens == {"Assign"} \cup CompoundTokens
OperatorTokens == BinTokens \cup AssignTokens

symb_bin(k) ==
    CASE k = "Addition" -> "Addition"
      [] k = "Negative" -> "Subtraction"
      [] k = "Multiplication" -> "Multiplication"
      [] k = "Division" -> "Division"
      [] k = "LessThan" -> "LessThan"
      [] k = "LessThanEqual" -> "LessThanEqual"
      [] k = "GreaterThan" -> "GreaterThan"
      [] k = "GreaterThanEqual" -> "GreaterThanEqual"
      [] k = "Equal" -> "Equal"
      [] k = "NotEqual" -> "NotEqual"
      [] k = "And" -> "And"
      [] k = "Or" -> "Or"

precedence(k) ==
    CASE k \in {"Multiplication", "Division"} -> 12
      [] k \in {"Addition", "Negative"} -> 11
      [] k \in {"LessThan", "LessThanEqual", "GreaterThan", "GreaterThanEqual"} -> 9
      [] k \in {"Equal", "NotEqual"} -> 8
      [] k = "And" -> 4
      [] k = "Or" -> 3
      [] k \in AssignTokens -> 1

associativity(k) == IF k \in AssignTokens THEN "Right" ELSE "Left"

\* The fourth component of the match arm: LessThanEqual names Token::LessThan.
pbtok(k) == IF k = "LessThanEqual" THEN Tok("LessThan") ELSE Tok(k)

next_min_wrong(prec, assoc) == prec + 1
next_min(prec, assoc) == IF assoc = "Left" THEN prec + 1 ELSE prec

compound_op_wrong(k) ==
    CASE k = "AssignAdd" -> "Addition"
      [] k = "AssignSub" -> "Addition"
      [] k = "AssignMul" -> "Multiplication"
      [] k = "AssignDiv" -> "Multiplication"
      [] k = "AssignMod" -> "Division"
      [] k = "AssignAnd" -> "BitOr"
      [] k = "AssignOr" -> "BitOr"
      [] k = "AssignXor" -> "BitOr"
      [] k = "AssignShiftLeft" -> "ShiftLeft"
      [] k = "AssignShiftRight" -> "ShiftLeft"
compound_op(k) ==
    CASE k = "AssignAdd" -> "Addition"
      [] k = "AssignSub" -> "Subtraction"
      [] k = "AssignMul" -> "Multiplication"
      [] k = "AssignDiv" -> "Division"
      [] k = "AssignMod" -> "Modulo"
      [] k = "AssignAnd" -> "BitAnd"
      [] k = "AssignOr" -> "BitOr"
      [] k = "AssignXor" -> "BitXor"
      [] k = "AssignShiftLeft" -> "ShiftLeft"
      [] k = "AssignShiftRight" -> "ShiftRight"

\* The fold of one operator into lhs (the `lhs = match op` of parse_expr).
fold(k, lhs, rhs, s) ==
    IF k \in BinTokens THEN Ok(Binary(symb_bin(k), lhs, rhs), s)
    ELSE IF lhs.tag # "Var" THEN Err("InvalidSyntax", s)
    ELSE IF k = "Assign" THEN Ok(Assign(lhs.s, rhs), s)
    ELSE Ok(Assign(lhs.s, Binary(compound_op(k), Var(lhs.s), rhs)), s)

RECURSIVE parse_atom(_), parse_expr(_, _), parse_expr_loop(_, _, _)
RECURSIVE after_unary(_), close_paren(_), after_atom(_, _), after_fold(_, _), after_rhs(_, _, _, _)

\* Ok(Expression::Unary(op, Box::new(e))) once parse_atom(t)? returned e.
unary_of(op, e) == IF e.st # "Ok" THEN e ELSE Ok(Unary(op, e.val), e.t)

\* let e = parse_atom(t)? after UnaryOperator::parse(t)? returned op.
after_unary(op) == IF op.st # "Ok" THEN op ELSE unary_of(op.val, parse_atom(op.t))

\* The value of the parenthesis arm: v, once consume_token returned c.
paren_value(v, c) ==
    IF c.st # "Ok" THEN c
    ELSE IF v.st = "Ok" THEN Ok(v.val, c.t)
    ELSE [v EXCEPT !.t = c.t]

\* consume_token(t, CloseParenthesis)? after parse_expr(t, 1) returned v: v
\* is not checked before the closing parenthesis is consumed.
close_paren(v) ==
    IF v.st = "Panic" THEN v ELSE paren_value(v, consume_token(v.t, Tok("CloseParenthesis")))

parse_atom(s) ==
    IF s = <<>> THEN Err("UnexpectedEnd", s)
    ELSE CASE Head(s).k \in {"Negative", "Negation", "Complement"} ->
                after_unary(UnaryOperator_parse(put_back(Tail(s), Head(s))))
           [] Head(s).k = "Literal" -> Constant_parse(put_back(Tail(s), Head(s)))
           [] Head(s).k = "OpenParenthesis" -> close_paren(parse_expr(Tail(s), 1))
           [] Head(s).k = "Identifier" -> Ok(Var(Head(s).s), Tail(s))
           [] OTHER -> UnexpectedToken(Head(s), Tail(s))

\* The loop of parse_expr entered with the atom a as lhs.
after_atom(a, min_precedence) ==
    IF a.st # "Ok" THEN a ELSE parse_expr_loop(a.val, a.t, min_precedence)

parse_expr(s, min_precedence) == after_atom(parse_atom(s), min_precedence)

\* The next iteration with the folded lhs.
after_fold(f, min_precedence) ==
    IF f.st # "Ok" THEN f ELSE parse_expr_loop(f.val, f.t, min_precedence)

\* The fold once the recursive parse_expr(t, next_min)? returned rhs.
after_rhs(k, lhs, rhs, min_precedence) ==
    IF rhs.st # "Ok" THEN rhs ELSE after_fold(fold(k, lhs, rhs.val, rhs.t), min_precedence)

\* One iteration of the loop of parse_expr, with lhs parsed so far.
parse_expr_loop(lhs, s, min_precedence) ==
    IF s = <<>> THEN Err("UnexpectedEnd", s)
    ELSE IF Head(s).k \notin OperatorTokens THEN Ok(lhs, put_back(Tail(s), Head(s)))
    ELSE IF precedence(Head(s).k) < min_precedence
         THEN Ok(lhs, put_back(Tail(s), pbtok(Head(s).k)))
    ELSE after_rhs(Head(s).k, lhs,
                   parse_expr(Tail(s), next_min(precedence(Head(s).k),
                                                associativity(Head(s).k))),
                   min_precedence)

Expression_parse(s) == parse_expr(s, 1)

\* consume_token(t, Semicolon)? after Expression::parse(t)? returned e.
semicolon_after(e, c) == IF c.st # "Ok" THEN c ELSE Ok(e.val, c.t)
expect_semicolon(e) ==
    IF e.st # "Ok" THEN e ELSE semicolon_after(e, consume_token(e.t, Tok("Semicolon")))

\* `<expr> ;`: Expression::parse, then the terminating semicolon.
Statement_tail(s) == expect_semicolon(Expression_parse(s))

as_return(r) == IF r.st # "Ok" THEN r ELSE Ok(Return(r.val), r.t)
as_declaration(name, r) == IF r.st # "Ok" THEN r ELSE Ok(Declaration(name, TRUE, r.val), r.t)
as_expression(r) == IF r.st # "Ok" THEN r ELSE Ok(ExpressionStmt(r.val), r.t)

\* The Keyword(Int) arm of Statement::parse, the keyword consumed.
declaration_parse(r1) ==
    IF r1 = <<>> THEN Err("UnexpectedEnd", r1)
    ELSE IF Head(r1).k # "Identifier" THEN UnexpectedToken(Head(r1), Tail(r1))
    ELSE IF Tail(r1) = <<>> THEN Err("UnexpectedEnd", <<>>)
    ELSE IF r1[2] = Tok("Semicolon")
         THEN Ok(Declaration(Head(r1).s, FALSE, NoNode), Tail(Tail(r1)))
    ELSE IF r1[2] = Tok("Assign")
         THEN as_declaration(Head(r1).s,
                             Statement_tail(put_back(put_back(Tail(Tail(r1)), Tok("Assign")),
                                                     Identifier(Head(r1).s))))
    ELSE UnexpectedToken(r1[2], Tail(Tail(r1)))

Statement_parse(s) ==
    IF s = <<>> THEN Err("UnexpectedEnd", s)
    ELSE CASE Head(s) = KwReturn -> as_return(Statement_tail(Tail(s)))
           [] Head(s) = KwInt -> declaration_parse(Tail(s))
           [] Head(s).k \in {"Identifier", "Literal"} ->
                as_expression(Statement_tail(put_back(Tail(s), Head(s))))
           [] OTHER -> UnexpectedToken(Head(s), Tail(s))

\* Function::parse up to and including the opening brace.
Function_header(s) ==
    LET c0 == consume_token(s, KwInt)
    IN IF c0.st # "Ok" THEN c0
       ELSE IF c0.t = <<>> THEN Panic
       ELSE IF Head(c0.t).k # "Identifier" THEN Err("InvalidSyntax", Tail(c0.t))
       ELSE LET c1 == consume_token(Tail(c0.t), Tok("OpenParenthesis"))
            IN IF c1.st # "Ok" THEN c1
               ELSE LET c2 == consume_token(c1.t, Tok("CloseParenthesis"))
                    IN IF c2.st # "Ok" THEN c2
                       ELSE LET c3 == consume_token(c2.t, Tok("OpenBrace"))
                            IN IF c3.st # "Ok" THEN c3
                               ELSE Ok(Head(c0.t).s, c3.t)

(***************************************************************************)
(* The label generator.                                                    *)
(***************************************************************************)
DigitChar(d) == <<"0", "1", "2", "3", "4", "5", "6", "7", "8", "9">>[d + 1]

RECURSIVE Digits(_)
\* usize's Display: the decimal digits, most significant first.
Digits(n) == IF n < 10 THEN <<DigitChar(n)>> ELSE Digits(n \div 10) \o <<DigitChar(n % 10)>>

\* format!("__ccgen{}", n)
format_label_wrong(n) == <<"__ccgen">> \o <<DigitChar(n % 10)>>
format_label(n) == <<"__ccgen">> \o Digits(n)

\* The value LABEL_COUNT holds after fetch_add(1) on c (the call returns c).
fetch_add_wrong(c) == c
fetch_add(c) == c + 1

RECURSIVE LabelSource(_, _)
\* The values n successive gen_label calls read, starting from counter c.
LabelSource(c, n) == IF n = 0 THEN <<>> ELSE <<c>> \o LabelSource(fetch_add(c), n - 1)

RECURSIVE LabelCalls(_)
\* The number of gen_label calls in a complete Expression::emit of e.
LabelCalls(e) ==
    IF e.tag = "None" THEN 0
    ELSE (IF e.tag = "Binary" /\ e.op \in {"And", "Or"} THEN 2 ELSE 0)
         + (IF Len(e.kids) >= 1 THEN LabelCalls(e.kids[1]) ELSE 0)
         + (IF Len(e.kids) >= 2 THEN LabelCalls(e.kids[2]) ELSE 0)

(***************************************************************************)
(* Emitted assembly: a sequence of instructions.  An operand is a register *)
(* name, "imm" (the immediate n) or "mem" (the word at [rbp - n]).  nl is  *)
(* FALSE when the text of the instruction does not end its line.           *)
(***************************************************************************)
NoLabel == <<>>
I(op, a, b, n) == [op |-> op, a |-> a, b |-> b, n |-> n, lab |-> NoLabel, nl |-> TRUE]
J(op, lab) == [op |-> op, a |-> "", b |-> "", n |-> 0, lab |-> lab, nl |-> TRUE]

EOk(code, used) == [st |-> "Ok", err |-> "", var |-> "", code |-> code, used |-> used]
EErr(kind, var, used) == [st |-> "Err", err |-> kind, var |-> var, code |-> <<>>, used |-> used]

Constant_emit(c) == c.i

UnaryOperator_emit(op) ==
    CASE op = "Negative" -> <<I("neg", "rax", "", 0)>>
      [] op = "Complement" -> <<I("not", "rax", "", 0)>>
      [] op = "Negation" -> <<I("cmp", "rax", "imm", 0), I("mov", "rax", "imm", 0),
                              I("sete", "al", "", 0)>>

Compare_wrong(cc) == <<I("cmp", "rax", "rcx", 0), I("mov", "rax", "imm", 0), I(cc, "al", "", 0)>>
Compare(cc) == <<I("cmp", "rcx", "rax", 0), I("mov", "rax", "imm", 0), I(cc, "al", "", 0)>>
ViaRcx(op) == <<I(op, "rcx", "rax", 0), I("mov", "rax", "rcx", 0)>>

BinaryOperator_emit(op) ==
    CASE op = "Addition" -> <<I("add", "rax", "rcx", 0)>>
      [] op = "Subtraction" -> ViaRcx("sub")
      [] op = "Multiplication" -> <<I("imul", "rax", "rcx", 0)>>
      [] op = "Division" -> <<I("mov", "rbx", "rax", 0), I("mov", "rax", "rcx", 0),
                              I("cqo", "", "", 0), I("idiv", "rbx", "", 0)>>
      [] op = "Modulo" -> <<I("mov", "rbx", "rax", 0), I("mov", "rax", "rcx", 0),
                            I("cqo", "", "", 0), I("idiv", "rbx", "", 0),
                            I("mov", "rax", "rdx", 0)>>
      [] op = "BitAnd" -> ViaRcx("and")
      [] op = "BitOr" -> ViaRcx("or")
      [] op = "BitXor" -> ViaRcx("xor")
      [] op = "ShiftLeft" -> ViaRcx("shl")
      [] op = "ShiftRight" -> ViaRcx("shr")
      [] op = "LessThan" -> Compare("setl")
      [] op = "LessThanEqual" -> Compare("setle")
      [] op = "GreaterThan" -> Compare("setg")
      [] op = "GreaterThanEqual" -> Compare("setge")
      [] op = "Equal" -> Compare("sete")
      [] op = "NotEqual" -> Compare("setne")

\* The text of a logical AND/OR: jcc is jne for And, je for Or; l2 and l3 are
\* the labels of the third and fourth format arguments.
short_circuit_wrong(jcc, c1, c2, l2, l3) ==
    c1 \o <<I("cmp", "rax", "imm", 0), J(jcc, l2), J("label", l2)>>
       \o c2
       \o <<I("cmp", "rax", "imm", 0), I("mov", "rax", "imm", 0), I("setne", "al", "", 0),
            J("label", l3)>>
short_circuit(jcc, c1, c2, l2, l3) ==
    c1 \o <<I("cmp", "rax", "imm", 0), J(jcc, l2), J("jmp", l3), J("label", l2)>>
       \o c2
       \o <<I("cmp", "rax", "imm", 0), I("mov", "rax", "imm", 0), I("setne", "al", "", 0),
            J("label", l3)>>

\* vmap.get(&v): is_some, and the offset.
has_entry_wrong(vm, v) == TRUE
has_entry(vm, v) == v \in DOMAIN vm
lookup(vm, v) == IF v \in DOMAIN vm THEN vm[v] ELSE 0

RECURSIVE Expression_emit(_, _, _)
\* Expression::emit under binder vm; src holds the counter values the
\* gen_label calls of this emission read, in call order.
Expression_emit(e, vm, src) ==
    CASE e.tag = "Var" ->
           IF has_entry(vm, e.s) THEN EOk(<<I("mov", "rax", "mem", lookup(vm, e.s))>>, 0)
           ELSE EErr("UndeclaredVariable", e.s, 0)
      [] e.tag = "Assign" ->
           LET r == Expression_emit(e.kids[1], vm, src)
           IN IF r.st # "Ok" THEN r
              ELSE IF has_entry(vm, e.s)
                   THEN EOk(r.code \o <<I("mov", "mem", "rax", lookup(vm, e.s))>>, r.used)
              ELSE EErr("UndeclaredVariable", e.s, r.used)
      [] e.tag = "Constant" -> EOk(<<I("mov", "rax", "imm", Constant_emit(e))>>, 0)
      [] e.tag = "Unary" ->
           LET r == Expression_emit(e.kids[1], vm, src)
           IN IF r.st # "Ok" THEN r
              ELSE EOk(r.code \o UnaryOperator_emit(e.op), r.used)
      [] e.tag = "Binary" ->
           LET r1 == Expression_emit(e.kids[1], vm, src)
           IN IF r1.st # "Ok" THEN r1
              ELSE LET r2 == Expression_emit(e.kids[2], vm, SubSeq(src, r1.used + 1, Len(src)))
                       u == r1.used + r2.used
                   IN IF r2.st # "Ok" THEN [r2 EXCEPT !.used = u]
                      ELSE IF e.op \notin {"And", "Or"}
                           THEN EOk(r1.code \o <<I("push", "rax", "", 0)>> \o r2.code
                                    \o <<I("pop", "rcx", "", 0)>> \o BinaryOperator_emit(e.op), u)
                      ELSE EOk(short_circuit(IF e.op = "And" THEN "jne" ELSE "je",
                                             r1.code, r2.code,
                                             format_label(src[u + 1]),
                                             format_label(src[u + 2])), u + 2)

Epilogue ==
    <<I("mov", "rsp", "rbp", 0), I("pop", "r15", "", 0), I("pop", "r14", "", 0),
      I("pop", "r13", "", 0), I("pop", "r12", "", 0), I("pop", "rbp", "", 0),
      I("pop", "rbx", "", 0)>>

Prologue(name) ==
    <<J("global", <<name>>), J("label", <<name>>),
      I("push", "rbx", "", 0), I("push", "rbp", "", 0), I("push", "r12", "", 0),
      I("push", "r13", "", 0), I("push", "r14", "", 0), I("push", "r15", "", 0),
      I("mov", "rbp", "rsp", 0)>>

SOk(code, vm, si, used) ==
    [st |-> "Ok", err |-> "", var |-> "", code |-> code, vmap |-> vm, stack_index |-> si,
     used |-> used]
SErr(kind, var, vm, si, used) ==
    [st |-> "Err", err |-> kind, var |-> var, code |-> <<>>, vmap |-> vm, stack_index |-> si,
     used |-> used]

\* vmap.insert(s, *stack_index)
insert_wrong(vm, s, si) == [x \in DOMAIN vm \cup {s} |-> 8]
insert(vm, s, si) == [x \in DOMAIN vm \cup {s} |-> IF x = s THEN si ELSE vm[x]]

\* *stack_index += 8
advance_wrong(si) == si
advance(si) == si + 8

contains_key_wrong(vm, s) == FALSE
contains_key(vm, s) == s \in DOMAIN vm

Statement_emit(stmt, vm, si, src) ==
    CASE stmt.tag = "Declaration" ->
           IF contains_key(vm, stmt.s) THEN SErr("DuplicateDeclaration", stmt.s, vm, si, 0)
           ELSE LET vm1 == insert(vm, stmt.s, si)
                    si1 == advance(si)
                IN IF ~stmt.has THEN SOk(<<>>, vm1, si1, 0)
                   ELSE LET r == Expression_emit(stmt.e, vm1, src)
                        IN IF r.st # "Ok" THEN SErr(r.err, r.var, vm1, si1, r.used)
                           ELSE SOk(r.code \o <<I("push", "rax", "", 0)>>, vm1, si1, r.used)
      [] stmt.tag = "Expression" ->
           LET r == Expression_emit(stmt.e, vm, src)
           IN IF r.st # "Ok" THEN SErr(r.err, r.var, vm, si, r.used)
              ELSE SOk(r.code, vm, si, r.used)
      [] stmt.tag = "Return" ->
           LET r == Expression_emit(stmt.e, vm, src)
           IN IF r.st # "Ok" THEN SErr(r.err, r.var, vm, si, r.used)
              ELSE SOk(r.code \o Epilogue \o <<[I("ret", "", "", 0) EXCEPT !.nl = FALSE]>>,
                       vm, si, r.used)

\* String concatenation of emitted text: text following an unterminated line
\* continues that line.
Concat(a, b) ==
    IF a # <<>> /\ b # <<>> /\ ~a[Len(a)].nl
    THEN SubSeq(a, 1, Len(a) - 1)
         \o <<[op |-> "bad", a |-> a[Len(a)].op, b |-> b[1].op, n |-> 0, lab |-> NoLabel,
               nl |-> b[1].nl]>>
         \o Tail(b)
    ELSE a \o b

\* The format! of Function::emit around the concatenated statements.
Function_text(name, stmts) ==
    Prologue(name) \o stmts \o Epilogue \o <<I("mov", "rax", "imm", 0), I("ret", "", "", 0)>>

(***************************************************************************)
(* The machine: the x86-64 semantics of the instructions the emitter       *)
(* writes.  Values are signed integers; the bounds keep every value far    *)
(* inside the 64-bit range, so no instruction wraps.  Addresses are        *)
(* relative to the stack pointer at entry.                                 *)
(***************************************************************************)
Regs == {"rax", "rbx", "rcx", "rdx", "rsp", "rbp", "r12", "r13", "r14", "r15"}

\* A word never written holds whatever the caller left there (mach.g).
Read(mach, a) == IF a \in DOMAIN mach.mem THEN mach.mem[a] ELSE mach.g
Write(mem, a, v) == [x \in DOMAIN mem \cup {a} |-> IF x = a THEN v ELSE mem[x]]

Abs(x) == IF x < 0 THEN -x ELSE x
\* idiv: the quotient is truncated toward zero, the remainder has the sign of
\* the dividend.
IdivQuot(a, b) == (IF (a < 0) = (b < 0) THEN 1 ELSE -1) * (Abs(a) \div Abs(b))
IdivRem(a, b) == a - b * IdivQuot(a, b)

RECURSIVE BitOp(_, _, _)
\* and/or/xor of two's-complement integers, bit by bit.
BitOp(op, a, b) ==
    LET bit(x, y) == CASE op = "and" -> IF x = 1 /\ y = 1 THEN 1 ELSE 0
                       [] op = "or" -> IF x = 1 \/ y = 1 THEN 1 ELSE 0
                       [] op = "xor" -> IF x # y THEN 1 ELSE 0
    IN IF a \in {0, -1} /\ b \in {0, -1}
       THEN -bit(-a, -b)
       ELSE 2 * BitOp(op, (a - (a % 2)) \div 2, (b - (b % 2)) \div 2) + bit(a % 2, b % 2)

LabelIndex(code, lab) ==
    LET S == {i \in 1..Len(code) : code[i].op = "label" /\ code[i].lab = lab}
    IN IF S = {} THEN 0 ELSE CHOOSE i \in S : \A j \in S : i <= j

\* Instructions no assembler accepts: text glued to an unterminated line, and
\* a shift whose count is a 64-bit register.
Invalid(ins) == ins.op \in {"bad", "shl", "shr"}

\* cc holds of the flags left by cmp x, y with fl = sign(x - y).
jcc_wrong(cc, fl) == fl = 0
jcc(cc, fl) ==
    CASE cc \in {"e"} -> fl = 0
      [] cc = "ne" -> fl # 0
      [] cc = "l" -> fl < 0
      [] cc = "le" -> fl <= 0
      [] cc = "g" -> fl > 0
      [] cc = "ge" -> fl >= 0

\* The condition code of a setcc or jcc mnemonic.
CondOf(op) ==
    CASE op \in {"sete", "je"} -> "e"
      [] op \in {"setne", "jne"} -> "ne"
      [] op = "setl" -> "l"
      [] op = "setle" -> "le"
      [] op = "setg" -> "g"
      [] op = "setge" -> "ge"

Sign(x) == IF x < 0 THEN -1 ELSE IF x = 0 THEN 0 ELSE 1

Step(mach, code) ==
    LET ins == code[mach.ip]
        r == mach.reg
        val(o) == CASE o = "imm" -> ins.n
                    [] o = "mem" -> Read(mach, r["rbp"] - ins.n)
                    [] OTHER -> r[o]
        next == [mach EXCEPT !.ip = mach.ip + 1,
                             !.log = Append(mach.log, [ip |-> mach.ip, rax |-> r["rax"]])]
        set(reg, v) == [next EXCEPT !.reg[reg] = v]
        arith(reg, v) == [next EXCEPT !.reg[reg] = v, !.fl = 2]
        fault(why) == [next EXCEPT !.st = why]
        goto(lab) == IF LabelIndex(code, lab) = 0 THEN fault("fault")
                     ELSE [next EXCEPT !.ip = LabelIndex(code, lab)]
    IN CASE ins.op \in {"global", "label"} -> next
         [] ins.op = "mov" ->
              IF ins.a = "mem" THEN [next EXCEPT !.mem = Write(mach.mem, r["rbp"] - ins.n, val(ins.b))]
              ELSE set(ins.a, val(ins.b))
         [] ins.op = "push" ->
              [next EXCEPT !.reg["rsp"] = r["rsp"] - 8,
                           !.mem = Write(mach.mem, r["rsp"] - 8, r[ins.a])]
         [] ins.op = "pop" ->
              [next EXCEPT !.reg = [r EXCEPT ![ins.a] = Read(mach, r["rsp"]),
                                             !["rsp"] = IF ins.a = "rsp" THEN Read(mach, r["rsp"])
                                                        ELSE r["rsp"] + 8]]
         [] ins.op = "neg" -> arith(ins.a, -r[ins.a])
         [] ins.op = "not" -> set(ins.a, -r[ins.a] - 1)
         [] ins.op = "add" -> arith(ins.a, r[ins.a] + val(ins.b))
         [] ins.op = "sub" -> arith(ins.a, r[ins.a] - val(ins.b))
         [] ins.op = "imul" -> arith(ins.a, r[ins.a] * val(ins.b))
         [] ins.op \in {"and", "or", "xor"} -> arith(ins.a, BitOp(ins.op, r[ins.a], val(ins.b)))
         [] ins.op = "cmp" -> [next EXCEPT !.fl = Sign(r[ins.a] - val(ins.b))]
         [] ins.op \in {"sete", "setne", "setl", "setle", "setg", "setge"} ->
              IF mach.fl = 2 THEN fault("fault")
              ELSE set("rax", r["rax"] - (r["rax"] % 256)
                              + (IF jcc(CondOf(ins.op), mach.fl) THEN 1 ELSE 0))
         [] ins.op \in {"je", "jne"} ->
              IF mach.fl = 2 THEN fault("fault")
              ELSE IF jcc(CondOf(ins.op), mach.fl) THEN goto(ins.lab) ELSE next
         [] ins.op = "jmp" -> goto(ins.lab)
         [] ins.op = "cqo" -> set("rdx", IF r["rax"] < 0 THEN -1 ELSE 0)
         [] ins.op = "idiv" ->
              \* rdx:rax is the sign extension of rax (cqo precedes every idiv)
              IF r[ins.a] = 0 \/ r["rdx"] # (IF r["rax"] < 0 THEN -1 ELSE 0) THEN fault("fault")
              ELSE [next EXCEPT !.reg = [r EXCEPT !["rax"] = IdivQuot(r["rax"], r[ins.a]),
                                                  !["rdx"] = IdivRem(r["rax"], r[ins.a])],
                                !.fl = 2]
         [] ins.op = "ret" ->
              IF Read(mach, r["rsp"]) = 4242 THEN [next EXCEPT !.st = "ret", !.reg["rsp"] = r["rsp"] + 8]
              ELSE fault("fault")
         [] OTHER -> fault("invalid")

\* The machine at the call of the emitted function: the return address on top
\* of the stack, g in every word and register the caller did not set.
Machine(g, st) ==
    [ip |-> 2, st |-> st, g |-> g, fl |-> 2, log |-> <<>>,
     reg |-> [x \in Regs |-> CASE x = "rsp" -> 0
                                [] x = "rbp" -> 96
                                [] x = "rbx" -> 11
                                [] x \in {"r12", "r13", "r14", "r15"} -> 12
                                [] OTHER -> g],
     mem |-> [a \in {0} |-> 4242]]

\* Values the caller may have left in unset words and registers.
Garbage == {0, 7}

NoMachine == Machine(0, "off")

(***************************************************************************)
(* The compilation as a state machine: parse (Function::parse, one         *)
(* statement per step), emit (Function::emit, one statement per step),     *)
(* and the run of the emitted function, one instruction per step.          *)
(***************************************************************************)
EmptyMap == [x \in {} |-> 0]
NoError == [kind |-> "", var |-> ""]

\* Function::parse, lines 78-84: the header up to the opening brace.
ParseHeader ==
    /\ phase = "parse"
    /\ LET r == Function_header(t)
       IN /\ t' = r.t
          /\ IF r.st = "Ok"
             THEN fname' = r.val /\ perr' = perr /\ phase' = "body"
             ELSE fname' = fname /\ perr' = r.err /\ phase' = "done"
    /\ UNCHANGED <<tokens, body, vmap, stack_index, emitted, asm, eerr, LABEL_COUNT, m, th,
                   input>>

\* One iteration of the loop of Function::parse, lines 85-93.
ParseStatement ==
    /\ phase = "body"
    /\ IF t = <<>>
       THEN t' = t /\ body' = body /\ perr' = "Panic" /\ phase' = "done"
       ELSE IF Head(t) = Tok("CloseBrace")
       THEN t' = Tail(t) /\ body' = body /\ perr' = perr /\ phase' = "emit"
       ELSE LET r == Statement_parse(put_back(Tail(t), Head(t)))
            IN /\ t' = r.t
               /\ IF r.st = "Ok"
                  THEN body' = Append(body, r.val) /\ perr' = perr /\ phase' = "body"
                  ELSE body' = body /\ perr' = r.err /\ phase' = "done"
    /\ UNCHANGED <<tokens, fname, vmap, stack_index, emitted, asm, eerr, LABEL_COUNT, m, th,
                   input>>

\* One element of the map over self.body in Function::emit, lines 126-129.
EmitStatement ==
    /\ phase = "emit"
    /\ emitted < Len(body)
    /\ LET stmt == body[emitted + 1]
           r == Statement_emit(stmt, vmap, stack_index,
                               LabelSource(LABEL_COUNT, LabelCalls(stmt.e)))
       IN /\ vmap' = r.vmap
          /\ stack_index' = r.stack_index
          /\ LABEL_COUNT' = LabelSource(LABEL_COUNT, r.used + 1)[r.used + 1]
          /\ emitted' = emitted + 1
          /\ IF r.st = "Ok"
             THEN asm' = Concat(asm, r.code) /\ eerr' = eerr /\ phase' = "emit"
             ELSE asm' = asm /\ eerr' = [kind |-> r.err, var |-> r.var] /\ phase' = "done"
    /\ UNCHANGED <<tokens, t, fname, body, perr, m, th, input>>

\* The format! of Function::emit, lines 103-125, once every statement is
\* emitted; the text is then assembled and the function called.
EmitFunction ==
    /\ phase = "emit"
    /\ emitted = Len(body)
    /\ asm' = Function_text(fname, asm)
    /\ \E g \in Garbage :
          IF \E i \in 1..Len(asm') : Invalid(asm'[i])
          THEN m' = Machine(g, "rejected") /\ phase' = "done"
          ELSE m' = Machine(g, "run") /\ phase' = "exec"
    /\ UNCHANGED <<tokens, t, fname, body, perr, vmap, stack_index, emitted, eerr,
                   LABEL_COUNT, th, input>>

\* The processor executes the instruction at ip.
ExecStep ==
    /\ phase = "exec"
    /\ m' = Step(m, asm)
    /\ phase' = IF m'.st = "run" THEN "exec" ELSE "done"
    /\ UNCHANGED <<tokens, t, fname, body, perr, vmap, stack_index, emitted, asm, eerr,
                   LABEL_COUNT, th, input>>

(***************************************************************************)
(* Emissions running concurrently in one process: thread p emits the       *)
(* expression th[p].e; its gen_label calls interleave with the others'.    *)
(***************************************************************************)
\* gen_label, lines 48-50, called by thread p: one atomic fetch_add.
gen_label(p) ==
    /\ th[p].pc = "emit"
    /\ Len(th[p].got) < LabelCalls(th[p].e)
    /\ th' = [th EXCEPT ![p].got = Append(@, LABEL_COUNT)]
    /\ LABEL_COUNT' = fetch_add(LABEL_COUNT)
    /\ UNCHANGED <<phase, tokens, t, fname, body, perr, vmap, stack_index, emitted, asm,
                   eerr, m, input>>

\* Thread p has made every gen_label call of its Expression::emit and
\* returns the text.
EmitDone(p) ==
    /\ th[p].pc = "emit"
    /\ Len(th[p].got) = LabelCalls(th[p].e)
    /\ th' = [th EXCEPT ![p].pc = "done",
                        ![p].code = Expression_emit(th[p].e, EmptyMap, th[p].got).code]
    /\ UNCHANGED <<phase, tokens, t, fname, body, perr, vmap, stack_index, emitted, asm,
                   eerr, LABEL_COUNT, m, input>>

(***************************************************************************)
(* Inputs.  Every input is a token vector; input records how it was built. *)
(***************************************************************************)
MaxOps == 2       \* binary operators in an expression of the precedence inputs
MaxChain == 3     \* assignments in a chain
MaxStmts == 3     \* statements in a function body of the emission inputs
MaxLit == 3       \* largest integer literal of the executed inputs
MaxNest == 2      \* logical operators in an expression emitted concurrently

Idents == {"a", "b"}

Semi == Tok("Semicolon")
Paren(ts) == <<Tok("OpenParenthesis")>> \o ts \o <<Tok("CloseParenthesis")>>
Program(stmts) ==
    <<KwInt, Identifier("main"), Tok("OpenParenthesis"), Tok("CloseParenthesis"),
      Tok("OpenBrace")>> \o stmts \o <<Tok("CloseBrace")>>

RECURSIVE Flatten(_)
Flatten(ss) == IF ss = <<>> THEN <<>> ELSE Head(ss) \o Flatten(Tail(ss))

RECURSIVE SeqsUpTo(_, _)
\* The sequences of at most n elements of S.
SeqsUpTo(S, n) ==
    IF n = 0 THEN {<<>>}
    ELSE SeqsUpTo(S, n - 1) \cup {Append(q, x) : q \in SeqsUpTo(S, n - 1), x \in S}

\* The precedence table of the specification, by BinaryOperator.
TableOps == {"Multiplication", "Division", "Addition", "Subtraction", "LessThan",
             "LessThanEqual", "GreaterThan", "GreaterThanEqual", "Equal", "NotEqual",
             "And", "Or"}
TablePrec(op) ==
    CASE op \in {"Multiplication", "Division"} -> 12
      [] op \in {"Addition", "Subtraction"} -> 11
      [] op \in {"LessThan", "LessThanEqual", "GreaterThan", "GreaterThanEqual"} -> 9
      [] op \in {"Equal", "NotEqual"} -> 8
      [] op = "And" -> 4
      [] op = "Or" -> 3
\* The token the tokenizer produces for a binary operator.
TokenOf(op) == IF op = "Subtraction" THEN Tok("Negative") ELSE Tok(op)

RECURSIVE Trees(_, _)
\* The trees of exactly n table operators over the literals f, f+1, ... in
\* source order.
Trees(n, f) ==
    IF n = 0 THEN {Constant(f)}
    ELSE UNION {{Binary(op, l, r) : op \in TableOps, l \in Trees(i, f),
                                   r \in Trees(n - 1 - i, f + i + 1)} : i \in 0..(n - 1)}

RECURSIVE Unparse(_, _, _)
\* The source text of tree e where an operand must bind at least as tightly
\* as minp: parentheses where the tree needs them (all = FALSE) or around
\* every operand that is itself a binary expression (all = TRUE).
Unparse(e, minp, all) ==
    IF e.tag = "Constant" THEN <<LiteralInt(e.i)>>
    ELSE LET p == TablePrec(e.op)
             inner == Unparse(e.kids[1], IF all THEN 13 ELSE p, all) \o <<TokenOf(e.op)>>
                      \o Unparse(e.kids[2], IF all THEN 13 ELSE p + 1, all)
         IN IF p < minp THEN Paren(inner) ELSE inner

PrecInputs ==
    {[fam |-> "prec", arg |-> [tree |-> e, all |-> all],
      toks |-> Program(<<KwReturn>> \o Unparse(e, 0, all) \o <<Semi>>)] :
        e \in UNION {Trees(n, 1) : n \in 0..MaxOps}, all \in BOOLEAN}

\* Right-hand sides with no top-level assignment.
PlainRhs ==
    {<<LiteralInt(3)>>,
     <<Identifier("c")>>,
     <<LiteralInt(1), Tok("Addition"), LiteralInt(2)>>,
     <<LiteralInt(1), Tok("Addition"), LiteralInt(2), Tok("LessThanEqual"), LiteralInt(3)>>,
     <<Tok("Negative"), Identifier("b"), Tok("Multiplication"), LiteralInt(2)>>,
     <<LiteralInt(1), Tok("Or")>> \o Paren(<<Identifier("c"), Tok("Assign"), LiteralInt(2)>>)}
\* Right-hand sides that are themselves assignments.
AssignRhs ==
    {<<Identifier("c"), Tok("Assign"), LiteralInt(5)>>,
     <<Identifier("c"), Tok("AssignAdd"), LiteralInt(1), Tok("Multiplication"), LiteralInt(2)>>}

RECURSIVE ChainTokens(_, _)
\* x1 = x2 = ... = xn = e
ChainTokens(xs, e) ==
    IF xs = <<>> THEN e ELSE <<Identifier(Head(xs)), Tok("Assign")>> \o ChainTokens(Tail(xs), e)

ChainInputs ==
    {[fam |-> "chain", arg |-> [xs |-> xs, e |-> e],
      toks |-> Program(ChainTokens(xs, e) \o <<Semi>>)] :
        xs \in SeqsUpTo(Idents, MaxChain) \ {<<>>}, e \in PlainRhs}

CompoundInputs ==
    {[fam |-> "compound", arg |-> [x |-> x, k |-> k, rhs |-> rhs],
      toks |-> Program(<<Identifier(x), Tok(k)>> \o rhs \o <<Semi>>)] :
        x \in Idents, k \in AssignTokens, rhs \in PlainRhs \cup AssignRhs}

\* Well-formed programs, cut after their first n tokens.
WholePrograms ==
    {Program(<<KwInt, Identifier("a"), Tok("Assign")>>
             \o Paren(<<LiteralInt(1), Tok("Addition"), LiteralInt(2)>>) \o <<Semi>>
             \o <<KwReturn, Tok("Negative"), Identifier("a"), Semi>>),
     Program(<<KwInt, Identifier("a"), Semi, Identifier("a"), Tok("AssignAdd"), LiteralInt(1),
               Semi, LiteralInt(2), Semi>>),
     Program(<<>>)}
CutInputs ==
    UNION {{[fam |-> "cut", arg |-> [whole |-> w, n |-> n], toks |-> SubSeq(w, 1, n)] :
              n \in 0..(Len(w) - 1)} : w \in WholePrograms}

\* The tokens of `int main() {`.
Opening ==
    <<KwInt, Identifier("main"), Tok("OpenParenthesis"), Tok("CloseParenthesis"),
      Tok("OpenBrace")>>

\* `return ( inner follow`: parse_expr, called after the opening parenthesis,
\* fails with err on the tokens of inner; follow is what comes after them.
ParenCases ==
    {[inner |-> <<LiteralInt(1), Tok("Addition"), Semi>>,
      follow |-> <<Tok("CloseParenthesis"), Semi, Tok("CloseBrace")>>,
      err |-> "UnexpectedToken"],
     [inner |-> <<LiteralInt(1)>>, follow |-> <<>>, err |-> "UnexpectedEnd"],
     [inner |-> <<LiteralInt(1), Tok("Addition")>>, follow |-> <<>>, err |-> "UnexpectedEnd"],
     [inner |-> <<LiteralInt(1), Tok("Assign"), LiteralInt(2)>>,
      follow |-> <<Tok("CloseParenthesis"), Semi, Tok("CloseBrace")>>,
      err |-> "InvalidSyntax"],
     [inner |-> <<LiteralInt(1), Tok("Assign"), LiteralInt(2)>>,
      follow |-> <<Semi, Tok("CloseBrace")>>,
      err |-> "InvalidSyntax"],
     [inner |-> Paren(<<LiteralInt(1), Tok("AssignAdd"), Identifier("a")>>),
      follow |-> <<Tok("CloseParenthesis"), Semi, Tok("CloseBrace")>>,
      err |-> "InvalidSyntax"]}
ParenInputs ==
    {[fam |-> "paren", arg |-> c,
      toks |-> Opening \o <<KwReturn, Tok("OpenParenthesis")>> \o c.inner \o c.follow] :
        c \in ParenCases}

\* `return 1 hi 2 rest`: the right operand of hi is parsed by
\* parse_expr(t, precedence(hi) + 1) on `2 rest`; rest begins with an operator
\* or assignment token of the table, or with a token that is no operator.
PushbackRests ==
    {<<Tok(k), LiteralInt(3), Semi>> : k \in OperatorTokens \cup {"Modulo"}}
        \cup {<<Semi>>, <<Tok("CloseParenthesis"), Semi>>}
PushbackInputs ==
    {[fam |-> "pushback", arg |-> [hi |-> hi, rest |-> rest],
      toks |-> Program(<<KwReturn, LiteralInt(1), Tok(hi), LiteralInt(2)>> \o rest)] :
        hi \in BinTokens, rest \in PushbackRests}

\* The state at the call of parse(toks).
Start(in) ==
    /\ input = [fam |-> in.fam, arg |-> in.arg]
    /\ tokens = in.toks
    /\ t = in.toks
    /\ phase = "parse"
    /\ fname = ""
    /\ body = <<>>
    /\ perr = ""
    /\ vmap = EmptyMap
    /\ stack_index = 8
    /\ emitted = 0
    /\ asm = <<>>
    /\ eerr = NoError
    /\ LABEL_COUNT = 0
    /\ m = NoMachine
    /\ th = <<>>

InitParse ==
    \E in \in PrecInputs \cup ChainInputs \cup CompoundInputs \cup CutInputs \cup ParenInputs
                \cup PushbackInputs :
        Start(in)
NextParse == ParseHeader \/ ParseStatement
SpecParse == InitParse /\ [][NextParse]_vars

(***************************************************************************)
(* Properties of the parser.                                               *)
(***************************************************************************)
ParseOver == phase \in {"emit", "done"}

\* C1: the source text of every tree over the precedence table parses back to
\* that tree: higher precedence binds tighter, equal precedence groups to the
\* left, a parenthesized sub-expression is one operand, and every operator
\* token yields the Binary node of its own operator.
C1_Precedence ==
    (input.fam = "prec" /\ ParseOver) =>
        (perr = "" /\ body = <<Return(input.arg.tree)>>)

RECURSIVE ChainTree(_, _)
ChainTree(xs, e) == IF xs = <<>> THEN e ELSE Assign(Head(xs), ChainTree(Tail(xs), e))

\* C2: x1 = x2 = ... = xn = e parses to Assign(x1, Assign(x2, ... Assign(xn, E)))
\* with E the tree of e.
C2_AssignRightAssoc ==
    (input.fam = "chain" /\ ParseOver) =>
        LET E == Expression_parse(input.arg.e \o <<Semi>>)
        IN /\ E.st = "Ok"
           /\ perr = ""
           /\ body = <<ExpressionStmt(ChainTree(input.arg.xs, E.val))>>

\* a = b = 3 has been parsed.
C2_Witness ==
    /\ input.fam = "chain" /\ phase = "emit"
    /\ input.arg.xs = <<"a", "b">> /\ input.arg.e = <<LiteralInt(3)>>
    /\ body = <<ExpressionStmt(Assign("a", Assign("b", Constant(3))))>>

\* The bare binary operator of a compound assignment, as the specification
\* pairs them.
MatchingOp(k) ==
    CASE k = "AssignAdd" -> "Addition"
      [] k = "AssignSub" -> "Subtraction"
      [] k = "AssignMul" -> "Multiplication"
      [] k = "AssignDiv" -> "Division"
      [] k = "AssignMod" -> "Modulo"
      [] k = "AssignAnd" -> "BitAnd"
      [] k = "AssignOr" -> "BitOr"
      [] k = "AssignXor" -> "BitXor"
      [] k = "AssignShiftLeft" -> "ShiftLeft"
      [] k = "AssignShiftRight" -> "ShiftRight"

\* C3: x op= rhs parses to Assign(x, Binary(op, Var(x), R)) and x = rhs to
\* Assign(x, R), with R the tree of rhs parsed as a full expression; x += 3
\* parses to the tree of x = x + 3.
C3_CompoundDesugar ==
    (input.fam = "compound" /\ ParseOver) =>
        LET x == input.arg.x
            k == input.arg.k
            R == Expression_parse(input.arg.rhs \o <<Semi>>)
            same == Expression_parse(<<Identifier(x), Tok("Assign"), Identifier(x),
                                       Tok("Addition")>> \o input.arg.rhs \o <<Semi>>)
        IN /\ R.st = "Ok"
           /\ perr = ""
           /\ body = <<ExpressionStmt(IF k = "Assign" THEN Assign(x, R.val)
                                      ELSE Assign(x, Binary(MatchingOp(k), Var(x), R.val)))>>
           /\ (k = "AssignAdd" /\ input.arg.rhs = <<LiteralInt(3)>>) =>
                  (same.st = "Ok" /\ body = <<ExpressionStmt(same.val)>>)

\* a -= c = 5 has been parsed.
C3_Witness ==
    /\ input.fam = "compound" /\ phase = "emit"
    /\ input.arg.k = "AssignSub"
    /\ body = <<ExpressionStmt(Assign("a", Binary("Subtraction", Var("a"),
                                                  Assign("c", Constant(5)))))>>

\* C10: parsing a proper prefix of a well-formed program returns
\* Err(UnexpectedEnd): no panic, no Ok, no other error.
C10_EndOfInput ==
    (input.fam = "cut" /\ ParseOver) => (phase = "done" /\ perr = "UnexpectedEnd")

\* C11: parsing is fail-fast: when the sub-expression inside parentheses
\* fails with UnexpectedToken, UnexpectedEnd or InvalidSyntax, the enclosing
\* parse returns that same error whatever tokens follow, and no token is
\* consumed after the error arose.
C11_FailFast ==
    (input.fam = "paren" /\ ParseOver) =>
        LET sub == parse_expr(input.arg.inner \o input.arg.follow, 1)
        IN /\ sub.st = "Err" /\ sub.err = input.arg.err
           /\ phase = "done"
           /\ perr = sub.err
           /\ t = sub.t

\* The BinaryOperator the specification's table gives a binary operator token.
OpOf(k) == IF k = "Negative" THEN "Subtraction" ELSE k

\* C14: when parse_expr reads a token that does not continue the expression
\* at its minimum precedence (no operator, or an operator or assignment
\* token of lower precedence), it returns its operand with the stream as it
\* was before the token was read, so the enclosing loop reads that very
\* token: a binary operator token then folds as its own operator.
C14_Pushback ==
    (input.fam = "pushback" /\ ParseOver) =>
        LET hi == input.arg.hi
            rest == input.arg.rest
            k == Head(rest).k
            mp == TablePrec(OpOf(hi)) + 1
            r == parse_expr(<<LiteralInt(2)>> \o rest \o <<Tok("CloseBrace")>>, mp)
            below == IF k \in AssignTokens THEN TRUE
                     ELSE IF k \in BinTokens THEN TablePrec(OpOf(k)) < mp
                     ELSE TRUE
        IN below =>
              /\ r.st = "Ok" /\ r.val = Constant(2)
              /\ r.t = rest \o <<Tok("CloseBrace")>>
              /\ k \in BinTokens =>
                    /\ perr = ""
                    /\ body = <<Return(Binary(OpOf(k),
                                               Binary(OpOf(hi), Constant(1), Constant(2)),
                                               Constant(3)))>>

(***************************************************************************)
(* Inputs of the emission properties: bodies of at most MaxStmts           *)
(* statements drawn from a menu.                                           *)
(***************************************************************************)
Decl(x) == <<KwInt, Identifier(x), Semi>>
DeclInit(x, e) == <<KwInt, Identifier(x), Tok("Assign")>> \o e \o <<Semi>>
StatementMenu ==
    {Decl("a"), Decl("b"), Decl("c"),
     DeclInit("a", <<LiteralInt(1)>>),
     DeclInit("b", <<Identifier("a")>>),
     <<Identifier("a"), Tok("Assign"), Identifier("b"), Semi>>,
     <<Identifier("c"), Tok("Assign"), Identifier("a"), Tok("And"), Identifier("b"), Semi>>,
     <<KwReturn, Identifier("a"), Semi>>}

EmitInputs ==
    {[fam |-> "emit", arg |-> ss, toks |-> Program(Flatten(ss))] :
        ss \in SeqsUpTo(StatementMenu, MaxStmts)}

InitEmit == \E in \in EmitInputs : Start(in)
NextEmit == ParseHeader \/ ParseStatement \/ EmitStatement \/ EmitFunction
SpecEmit == InitEmit /\ [][NextEmit]_vars

(***************************************************************************)
(* Properties of the emitter's frame binder.                               *)
(***************************************************************************)
RECURSIVE Uses(_)
\* The variable names of e in the order the traversal reaches them: an
\* Assign after its right-hand side.
Uses(e) ==
    CASE e.tag = "Var" -> <<e.s>>
      [] e.tag = "Assign" -> Uses(e.kids[1]) \o <<e.s>>
      [] e.tag = "Unary" -> Uses(e.kids[1])
      [] e.tag = "Binary" -> Uses(e.kids[1]) \o Uses(e.kids[2])
      [] OTHER -> <<>>

RECURSIVE Events(_)
\* The declarations and uses of a body in traversal order.
Events(ss) ==
    IF ss = <<>> THEN <<>>
    ELSE LET st == Head(ss)
             us == [i \in 1..Len(Uses(st.e)) |-> [decl |-> FALSE, s |-> Uses(st.e)[i]]]
         IN (IF st.tag = "Declaration" THEN <<[decl |-> TRUE, s |-> st.s]>> ELSE <<>>)
            \o us \o Events(Tail(ss))

RECURSIVE FirstFailure(_, _)
\* The first event that breaks the discipline, given the names declared.
FirstFailure(ev, declared) ==
    IF ev = <<>> THEN NoError
    ELSE IF Head(ev).decl
    THEN IF Head(ev).s \in declared THEN [kind |-> "DuplicateDeclaration", var |-> Head(ev).s]
         ELSE FirstFailure(Tail(ev), declared \cup {Head(ev).s})
    ELSE IF Head(ev).s \notin declared THEN [kind |-> "UndeclaredVariable", var |-> Head(ev).s]
         ELSE FirstFailure(Tail(ev), declared)

Emitting == perr = "" /\ phase \in {"emit", "exec", "done"} /\ input.fam = "emit"
Reached == FirstFailure(Events(SubSeq(body, 1, emitted)), {})

\* C6: emission fails with UndeclaredVariable naming v exactly when the first
\* breach the traversal reaches is a Var(v) or Assign(v, _) whose name has no
\* entry in the frame binder, and it fails there.
C6_DeclareBeforeUse ==
    Emitting =>
        /\ (eerr.kind = "UndeclaredVariable") = (Reached.kind = "UndeclaredVariable")
        /\ eerr.kind = "UndeclaredVariable" =>
              /\ eerr.var = Reached.var
              /\ eerr.var \notin DOMAIN vmap
              /\ phase = "done"
              /\ FirstFailure(Events(SubSeq(body, 1, emitted - 1)), {}) = NoError

\* `int a; int b; c = a && b;` has failed with UndeclaredVariable naming c.
C6_Witness ==
    /\ Emitting /\ eerr = [kind |-> "UndeclaredVariable", var |-> "c"]
    /\ Len(body) = 3 /\ emitted = 3 /\ DOMAIN vmap = {"a", "b"}
    /\ body[3] = ExpressionStmt(Assign("c", Binary("And", Var("a"), Var("b"))))

\* C7: emission fails with DuplicateDeclaration naming x exactly when the
\* traversal reaches a second Declaration of x, and the failing Declaration
\* leaves the frame binder and the stack-offset counter unchanged.
C7_DuplicateDeclaration ==
    /\ [](Emitting =>
            /\ (eerr.kind = "DuplicateDeclaration") = (Reached.kind = "DuplicateDeclaration")
            /\ eerr.kind = "DuplicateDeclaration" =>
                  (eerr.var = Reached.var /\ body[emitted].tag = "Declaration"
                   /\ body[emitted].s = eerr.var))
    /\ [][eerr'.kind = "DuplicateDeclaration" => (vmap' = vmap /\ stack_index' = stack_index)]_vars

\* `int a = 1; return a; int a;` has failed with DuplicateDeclaration naming a.
C7_Witness ==
    /\ Emitting /\ eerr = [kind |-> "DuplicateDeclaration", var |-> "a"]
    /\ emitted = 3 /\ body[1].tag = "Declaration" /\ body[1].has /\ body[2].tag # "Declaration"
    /\ DOMAIN vmap = {"a"} /\ stack_index = 16

RECURSIVE Declared(_, _)
\* The names of the Declarations of ss that inserted a binding, in order.
Declared(ss, seen) ==
    IF ss = <<>> THEN <<>>
    ELSE IF Head(ss).tag = "Declaration" /\ Head(ss).s \notin seen
    THEN <<Head(ss).s>> \o Declared(Tail(ss), seen \cup {Head(ss).s})
    ELSE Declared(Tail(ss), seen)

\* C8: the k-th Declaration emitted is bound to offset 8*k; a binding is never
\* removed or changed, and only a Declaration advances the counter, by 8.
C8_StackSlots ==
    /\ [](Emitting =>
            LET ds == Declared(SubSeq(body, 1, emitted), {})
            IN /\ DOMAIN vmap = {ds[k] : k \in 1..Len(ds)}
               /\ \A k \in 1..Len(ds) : vmap[ds[k]] = 8 * k
               /\ stack_index = 8 * (Len(ds) + 1))
    /\ [][\A v \in DOMAIN vmap : v \in DOMAIN vmap' /\ vmap'[v] = vmap[v]]_vars
    /\ [][stack_index' # stack_index =>
            (phase = "emit" /\ body[emitted + 1].tag = "Declaration"
             /\ stack_index' = stack_index + 8)]_vars

\* `int a; int b; int c;` has been emitted: a at 8, b at 16, c at 24.
C8_Witness ==
    /\ Emitting /\ emitted = 3 /\ eerr = NoError
    /\ \A i \in 1..3 : body[i].tag = "Declaration" /\ ~body[i].has
    /\ DOMAIN vmap = {"a", "b", "c"}
    /\ vmap["a"] = 8 /\ vmap["b"] = 16 /\ vmap["c"] = 24

(***************************************************************************)
(* Inputs that are compiled and run.                                       *)
(***************************************************************************)
ShortCircuitInputs ==
    {[fam |-> "sc", arg |-> [a |-> a, op |-> op, l |-> l, r |-> r],
      toks |-> Program(DeclInit("a", <<LiteralInt(a)>>) \o DeclInit("b", <<LiteralInt(1)>>)
                       \o l \o <<Tok(op)>> \o r \o <<Semi>>
                       \o <<KwReturn, Identifier("b"), Semi>>)] :
        a \in 0..MaxLit, op \in {"And", "Or"},
        l \in {<<Identifier("a")>>,
               <<Identifier("a"), Tok("Negative"), LiteralInt(1)>>,
               <<Identifier("a"), Tok("Equal"), LiteralInt(2)>>},
        r \in {Paren(<<Identifier("b"), Tok("Assign"), LiteralInt(2)>>),
               Paren(<<Identifier("b"), Tok("Assign"), LiteralInt(2)>>) \o <<Tok("And")>>
                 \o Paren(<<Identifier("b"), Tok("Assign"), LiteralInt(0)>>),
               Paren(<<Identifier("b"), Tok("Assign"), Identifier("a")>>) \o <<Tok("Or")>>
                 \o Paren(<<Identifier("b"), Tok("AssignAdd"), LiteralInt(4)>>)}}

Signed(neg, n) == IF neg THEN <<Tok("Negative"), LiteralInt(n)>> ELSE <<LiteralInt(n)>>
DivisionInputs ==
    {[fam |-> "div", arg |-> [op |-> op, a |-> IF na THEN -a ELSE a, b |-> IF nb THEN -b ELSE b],
      toks |-> Program(<<KwReturn>> \o Signed(na, a) \o <<Tok(op)>> \o Signed(nb, b)
                       \o <<Semi>>)] :
        op \in {"Division", "Modulo"}, a \in 0..(MaxLit + 2), b \in 1..MaxLit,
        na \in BOOLEAN, nb \in BOOLEAN}

\* Bodies of 1 to Len(Names) declarations, the k-th one of Names[k] with the
\* value k: `int x = k;` where inits[k], `int x; x = k;` otherwise; then
\* `return x;` or `return 0 + x;` of one of the variables.
Names == <<"a", "b", "c">>
SlotDecl(k, init) ==
    IF init THEN DeclInit(Names[k], <<LiteralInt(k)>>)
    ELSE Decl(Names[k]) \o <<Identifier(Names[k]), Tok("Assign"), LiteralInt(k), Semi>>
SlotInputs ==
    UNION {{[fam |-> "slot", arg |-> [inits |-> inits, ret |-> ret, sum |-> sum],
             toks |-> Program(Flatten([k \in 1..Len(inits) |-> SlotDecl(k, inits[k])])
                              \o <<KwReturn>>
                              \o (IF sum THEN <<LiteralInt(0), Tok("Addition")>> ELSE <<>>)
                              \o <<Identifier(Names[ret]), Semi>>)] :
               ret \in 1..Len(inits), sum \in BOOLEAN} :
             inits \in SeqsUpTo(BOOLEAN, Len(Names)) \ {<<>>}}

\* `return l && r;` and `return l || r;` over literals.
LogicInputs ==
    {[fam |-> "logic", arg |-> [op |-> op, l |-> l, r |-> r],
      toks |-> Program(<<KwReturn, LiteralInt(l), Tok(op), LiteralInt(r), Semi>>)] :
        op \in {"And", "Or"}, l \in 0..MaxLit, r \in 0..MaxLit}

\* The non-commutative operators, applied to a possibly negated literal l and
\* a right operand that is a possibly negated literal, a nested binary
\* expression or a short-circuit expression: `return l op r;`, and for
\* Modulo, whose token parse_expr does not read, `int a = l; a %= r; return a;`.
OrderedOps == {"Subtraction", "Division", "Modulo", "LessThan", "LessThanEqual",
               "GreaterThan", "GreaterThanEqual", "Equal", "NotEqual"}
RightOperands ==
    {[form |-> "literal", val |-> IF neg THEN -n ELSE n, toks |-> Signed(neg, n)] :
        n \in 0..MaxLit, neg \in BOOLEAN}
    \cup {[form |-> "binary", val |-> n - 1,
           toks |-> Paren(<<LiteralInt(n), Tok("Negative"), LiteralInt(1)>>)] : n \in 0..MaxLit}
    \cup {[form |-> "logical", val |-> IF n = 0 THEN 0 ELSE 1,
           toks |-> Paren(<<LiteralInt(n), Tok("And"), LiteralInt(2)>>)] : n \in 0..MaxLit}
\* The right operands op is applied to: no zero divisor.
RightOperandsOf(op) == {x \in RightOperands : op \in {"Division", "Modulo"} => x.val # 0}
OrderProgram(op, neg, l, r) ==
    IF op = "Modulo"
    THEN Program(DeclInit("a", Signed(neg, l))
                 \o <<Identifier("a"), Tok("AssignMod")>> \o r.toks \o <<Semi>>
                 \o <<KwReturn, Identifier("a"), Semi>>)
    ELSE Program(<<KwReturn>> \o Signed(neg, l) \o <<TokenOf(op)>> \o r.toks \o <<Semi>>)
OrderInputs ==
    UNION {{[fam |-> "order", arg |-> [op |-> op, l |-> IF neg THEN -l ELSE l, r |-> r],
             toks |-> OrderProgram(op, neg, l, r)] :
               l \in 0..MaxLit, neg \in BOOLEAN, r \in RightOperandsOf(op)} :
             op \in OrderedOps}

InitExec ==
    \E in \in ShortCircuitInputs \cup DivisionInputs \cup SlotInputs \cup LogicInputs
                \cup OrderInputs :
        Start(in)
NextExec == ParseHeader \/ ParseStatement \/ EmitStatement \/ EmitFunction \/ ExecStep
SpecExec == InitExec /\ [][NextExec]_vars

(***************************************************************************)
(* Properties of the emitted code when it runs.                            *)
(***************************************************************************)
Hits(j) == Cardinality({i \in 1..Len(m.log) : m.log[i].ip = j})
Returned == phase = "done" /\ perr = "" /\ eerr = NoError /\ m.st = "ret"
\* The conditional jumps of the text: one per logical AND (jne) or OR (je).
Branches == {i \in 1..Len(asm) : asm[i].op \in {"jne", "je"}}
\* The code of the right operand of the AND/OR whose conditional jump is at i:
\* from its entry label to the three instructions that normalize its value.
RightFirst(i) == LabelIndex(asm, asm[i].lab) + 1
RightLast(i) == LabelIndex(asm, asm[i + 1].lab) - 4
\* The value of the left operand when the jump at i executed.
LeftValue(i) == m.log[CHOOSE n \in 1..Len(m.log) : m.log[n].ip = i].rax
Skips(i) == IF asm[i].op = "jne" THEN LeftValue(i) = 0 ELSE LeftValue(i) # 0

\* C4: when the left operand of an AND is zero, or of an OR nonzero, no
\* instruction of the right operand executes; otherwise the right operand is
\* entered exactly once; `a && (b = 2); return b;` and `a || (b = 2);
\* return b;` return 1 when the right operand is skipped and 2 otherwise.
C4_ShortCircuit ==
    (input.fam = "sc" /\ phase \in {"exec", "done"}) =>
        /\ \A i \in Branches :
              /\ asm[i + 1].op = "jmp"
              /\ RightFirst(i) <= RightLast(i)
              /\ \A j \in RightFirst(i)..RightLast(i) : Hits(j) <= 1
              /\ Hits(i) = 1 =>
                    IF Skips(i) THEN \A j \in RightFirst(i)..RightLast(i) : Hits(j) = 0
                    ELSE phase = "done" => Hits(RightFirst(i)) = 1
        /\ phase = "done" =>
              /\ Returned
              /\ input.arg.r = Paren(<<Identifier("b"), Tok("Assign"), LiteralInt(2)>>) =>
                    LET l == CASE Len(input.arg.l) = 1 -> input.arg.a
                               [] input.arg.l[2] = Tok("Negative") -> input.arg.a - 1
                               [] OTHER -> IF input.arg.a = 2 THEN 1 ELSE 0
                    IN m.reg["rax"] = IF (input.arg.op = "And") = (l = 0) THEN 1 ELSE 2

\* `int a = 0; int b = 1; a && (b = 2); return b;` has returned 1 without
\* executing the store of b = 2.
C4_Witness ==
    /\ input.fam = "sc" /\ Returned
    /\ input.arg = [a |-> 0, op |-> "And", l |-> <<Identifier("a")>>,
                     r |-> Paren(<<Identifier("b"), Tok("Assign"), LiteralInt(2)>>)]
    /\ m.reg["rax"] = 1
    /\ \E i \in Branches : Hits(i) = 1 /\ Hits(RightFirst(i)) = 0
                              /\ asm[RightLast(i)].a = "mem"

\* C5: `return a / b;` and `return a % b;` over possibly negated literals, b
\* nonzero, are compiled, and the code returns the quotient truncated toward
\* zero, respectively the remainder with the sign of the dividend.
C5_DivMod ==
    (input.fam = "div" /\ phase = "done") =>
        /\ Returned
        /\ LET a == input.arg.a
               b == input.arg.b
               v == m.reg["rax"]
               rem(r) == Abs(r) < Abs(b) /\ (r = 0 \/ (r < 0) = (a < 0))
           IN IF input.arg.op = "Division" THEN rem(a - v * b)
              ELSE rem(v) /\ \E q \in (-Abs(a))..Abs(a) : a = q * b + v

\* The frame binder when statement i of body was emitted.
VmapBefore(i) ==
    [v \in {body[j].s : j \in {n \in 1..(i - 1) : body[n].tag = "Declaration"}} |-> vmap[v]]
\* The number of instructions of statement i of body.
StmtLen(i) ==
    Len(Statement_emit(body[i], VmapBefore(i), 8, LabelSource(0, LabelCalls(body[i].e))).code)
RECURSIVE StmtStart(_)
\* The position in asm of the instruction before the first one of statement i.
StmtStart(i) == IF i = 1 THEN Len(Prologue(fname)) ELSE StmtStart(i - 1) + StmtLen(i - 1)
\* The statement the instruction at ip belongs to (0: prologue or epilogue).
StmtOf(ip) ==
    LET S == {i \in 1..Len(body) : StmtStart(i) < ip /\ ip <= StmtStart(i) + StmtLen(i)}
    IN IF S = {} THEN 0 ELSE CHOOSE i \in S : TRUE

\* C12: a declared variable's slot is reserved: no push of a statement writes
\* the word at [rbp - offset] of a variable declared by an earlier statement,
\* and the function returns the last value assigned to the variable returned.
C12_SlotsReserved ==
    (input.fam = "slot" /\ phase \in {"exec", "done"}) =>
        /\ (phase = "exec" /\ asm[m.ip].op = "push" /\ StmtOf(m.ip) # 0) =>
              \A v \in DOMAIN VmapBefore(StmtOf(m.ip)) :
                 m.reg["rsp"] - 8 # m.reg["rbp"] - vmap[v]
        /\ phase = "done" => (Returned /\ m.reg["rax"] = input.arg.ret)

\* C13: the code of Binary(And, l, r) and of Binary(Or, l, r) leaves in rax
\* exactly 1 when the expression is true and exactly 0 when it is false, on
\* the short-circuit path as on the path that evaluates r.
C13_NormalizedBoolean ==
    (input.fam = "logic" /\ phase = "done") =>
        /\ Returned
        /\ LET l == input.arg.l # 0
               r == input.arg.r # 0
           IN m.reg["rax"] = IF (IF input.arg.op = "And" THEN l /\ r ELSE l \/ r) THEN 1 ELSE 0

\* v is the value of l op r, l the left-hand operand.
ValueOf(op, l, r, v) ==
    CASE op = "Subtraction" -> v = l - r
      [] op = "Division" ->
           LET rm == l - v * r IN Abs(rm) < Abs(r) /\ (rm = 0 \/ (rm < 0) = (l < 0))
      [] op = "Modulo" ->
           /\ Abs(v) < Abs(r) /\ (v = 0 \/ (v < 0) = (l < 0))
           /\ \E q \in (-Abs(l))..Abs(l) : l = q * r + v
      [] op = "LessThan" -> v = IF l < r THEN 1 ELSE 0
      [] op = "LessThanEqual" -> v = IF l <= r THEN 1 ELSE 0
      [] op = "GreaterThan" -> v = IF l > r THEN 1 ELSE 0
      [] op = "GreaterThanEqual" -> v = IF l >= r THEN 1 ELSE 0
      [] op = "Equal" -> v = IF l = r THEN 1 ELSE 0
      [] op = "NotEqual" -> v = IF l # r THEN 1 ELSE 0

\* The pushes of the initialized Declarations before statement i.
InitsBefore(i) == Cardinality({j \in 1..(i - 1) : body[j].tag = "Declaration" /\ body[j].has})
\* The position in asm of the instruction after the expression of statement i.
ExprEnd(i) ==
    StmtStart(i) + StmtLen(i) + 1
        - (CASE body[i].tag = "Return" -> Len(Epilogue) + 1
             [] body[i].tag = "Declaration" -> 1
             [] OTHER -> 0)

\* C15: the code of Binary(op, l, r), op not logical, leaves in rax the value
\* l op r with l the left-hand operand (l - r, l / r, l % r, the signed
\* comparisons), and its push and pop are balanced: the stack pointer after
\* the expression is the stack pointer before it, also when r holds a nested
\* binary or a short-circuit expression.
C15_OperandOrder ==
    (input.fam = "order" /\ phase \in {"exec", "done"}) =>
        /\ phase = "exec" =>
              \A i \in 1..Len(body) :
                 m.ip \in {StmtStart(i) + 1, ExprEnd(i)} =>
                    m.reg["rsp"] = m.reg["rbp"] - 8 * InitsBefore(i)
        /\ (phase = "exec" /\ m.ip = ExprEnd(IF input.arg.op = "Modulo" THEN 2 ELSE 1)) =>
              ValueOf(input.arg.op, input.arg.l, input.arg.r.val, m.reg["rax"])
        /\ phase = "done" =>
              /\ Returned
              /\ ValueOf(input.arg.op, input.arg.l, input.arg.r.val, m.reg["rax"])

\* `return 1 - (3 - 1);` has returned -1, having run the push of the outer
\* and of the nested subtraction.
C15_Witness ==
    /\ input.fam = "order" /\ Returned
    /\ input.arg.op = "Subtraction" /\ input.arg.l = 1
    /\ input.arg.r.form = "binary" /\ input.arg.r.val = 2
    /\ m.reg["rax"] = -1
    /\ Cardinality({i \in 1..Len(m.log) : m.log[i].ip > Len(Prologue(fname))
                                             /\ asm[m.log[i].ip].op = "push"}) = 2

(***************************************************************************)
(* Concurrent emissions sharing LABEL_COUNT.                               *)
(***************************************************************************)
Threads == {1, 2}

RECURSIVE Nested(_)
\* n logical operators, nested to the left.
Nested(n) ==
    IF n = 0 THEN Constant(1)
    ELSE Binary(IF n % 2 = 1 THEN "And" ELSE "Or", Nested(n - 1), Constant(0))
LabelExprs == {Nested(n) : n \in 1..MaxNest}

\* Compilations that ran earlier in the process have taken c0 labels.
InitLabels ==
    /\ \E c0 \in {0, 7} : LABEL_COUNT = c0
    /\ th \in [Threads -> {[pc |-> "emit", e |-> e, got |-> <<>>, code |-> <<>>] :
                                  e \in LabelExprs}]
    /\ input = [fam |-> "labels", arg |-> <<>>]
    /\ tokens = <<>>
    /\ t = <<>>
    /\ phase = "done"
    /\ fname = ""
    /\ body = <<>>
    /\ perr = ""
    /\ vmap = EmptyMap
    /\ stack_index = 8
    /\ emitted = 0
    /\ asm = <<>>
    /\ eerr = NoError
    /\ m = NoMachine

NextLabels == \E p \in Threads : gen_label(p) \/ EmitDone(p)
SpecLabels == InitLabels /\ [][NextLabels]_vars

\* The gen_label calls made so far: <<thread, call number>>.
Calls == UNION {{<<p, i>> : i \in 1..Len(th[p].got)} : p \in Threads}
Returned_label(c) == format_label(th[c[1]].got[c[2]])
\* The label definitions of the texts returned so far: <<thread, position>>.
Definitions ==
    UNION {{<<p, i>> : i \in {j \in 1..Len(th[p].code) : th[p].code[j].op = "label"}} :
             p \in Threads}
Defined(d) == th[d[1]].code[d[2]].lab

\* C9: no two gen_label calls return the same string under any interleaving,
\* the counter only increases, every label of the emitted texts is defined
\* exactly once, and the two labels of an AND/OR differ.
C9_LabelsUnique ==
    /\ [](/\ \A c, d \in Calls : c # d => Returned_label(c) # Returned_label(d)
          /\ \A c, d \in Definitions : c # d => Defined(c) # Defined(d)
          /\ \A p \in Threads : \A i \in 1..Len(th[p].code) :
                th[p].code[i].op \in {"je", "jne"} =>
                   th[p].code[i].lab # th[p].code[i + 1].lab)
    /\ [][LABEL_COUNT' >= LABEL_COUNT]_vars

\* Two emissions have interleaved their gen_label calls and both returned.
C9_Witness ==
    /\ \A p \in Threads : th[p].pc = "done"
    /\ Len(th[1].got) = 4 /\ Len(th[2].got) = 4
    /\ th[1].got[1] < th[2].got[1] /\ th[2].got[1] < th[1].got[4]
    /\ LABEL_COUNT = 15

====
